---- MODULE Spec2Model ----
(***************************************************************************)
(* HighConcurrencyQueue (src/src/queue/HighConcurrencyQueue.ts): the job   *)
(* scheduling and worker-coordination engine.  One action per public       *)
(* method, timer callback, setImmediate callback and handler settlement.   *)
(* Time is counted in abstract clock units; every Date.now() read inside   *)
(* one callback returns the same value `now`.                              *)
(***************************************************************************)
EXTENDS Integers, Sequences, FiniteSets, TLC

\* ---- bounds of the exploration ----
MaxObjs == 2          \* QueueJob objects ever created by add (engine)
MaxPrioObjs == 3      \* QueueJob objects ever created by add (priority scenarios)
MaxRateObjs == 3      \* QueueJob objects ever created by add (rate limiter)
MaxTime == 3          \* the clock stops advancing here
MaxWorkers == 2       \* workers ever registered
MaxImmediates == 1    \* setImmediate(processNextJobs) callbacks pending at once
MaxHits == 1          \* rejected submissions counted by metrics.rateLimitHits
MaxTimedObjs == 2     \* QueueJob objects ever created by add (delays and retries)
MaxTimedTime == 5     \* the clock stops advancing here (delays and retries)
MaxShutObjs == 2      \* QueueJob objects ever created by add (shutdown)
MaxShutTime == 4      \* the clock stops advancing here (shutdown)
MaxDiscardObjs == 3   \* QueueJob objects ever created by add (jobs discarded by shutdown)
MaxTypeObjs == 2      \* QueueJob objects ever created by add (two job types)
MaxLiveObjs == 2           \* job objects created in SpecLive
MaxLiveWorkers == 1        \* workers registered in SpecLive
MaxWaitObjs == 2           \* job objects created in SpecWait
MaxScaleEvents == 1        \* scale-up events counted by metrics.autoScalingEvents
MaxWindowObjs == 4         \* job objects created in SpecWindow
MaxFifoObjs == 3           \* job objects created in SpecFifo
MaxDelayObjs == 2          \* job objects created in SpecDelay
MaxSelectObjs == 3         \* job objects created in SpecSelect
MaxSelectWorkers == 3      \* workers registered in SpecSelect

\* ---- queue options (constructor arguments) ----
retryDelayMultiplier == 2     \* options.retryDelayMultiplier
windowMs == 2                 \* options.rateLimit.windowMs
maxRequests == 2              \* options.rateLimit.maxRequests
failureThreshold == 2         \* options.circuitBreaker.failureThreshold
resetTimeout == 2             \* options.circuitBreaker.resetTimeout
monitoringPeriod == 3         \* options.circuitBreaker.monitoringPeriod
breakerDeferDelay == 1        \* the fixed delay of the re-enqueue timer in processJob
retention == 2                \* the retention horizon of cleanup (24 h in the code)
shutdownTimeout == 2          \* the fixed timeout of shutdown (30000 ms in the code)
scaleUpThreshold == 1         \* options.autoScaling.scaleUpThreshold (default 50)
shutdownPollInterval == 1     \* the period of shutdown's check (1000 ms in the code)

NoWorker == 0

\* ---- the inputs the operations are called with ----
Types == {"llm_request"}
Priorities == {5}
AttemptOptions == {1, 2}
DelayOptions == {0}
KeyOptions == {""}            \* "" is an absent options.rateLimitKey
ConcurrencyOptions == {1}
Strategies == {"round-robin", "least-connections"}
MaxConcurrencyOptions == {1, 2}

VARIABLES
  now,              \* Date.now()
  options,          \* the constructor's options that vary: [strategy, maxConcurrency]
  objs,             \* the QueueJob objects, in creation order; a reference is an index
  jobs,             \* this.jobs: job id -> reference
  waitingQueue,     \* this.waitingQueue: sequence of references
  workers,          \* this.workers: worker ids in Map insertion order
  workerObjs,       \* the QueueWorker objects ever created: id -> [type, concurrency, activeJobs]
  processingJobs,   \* this.processingJobs: set of job ids
  completedJobs,    \* this.completedJobs: sequence of references
  failedJobs,       \* this.failedJobs: sequence of references
  rateLimitStore,   \* this.rateLimitStore: key -> [count, resetTime]
  circuitBreakers,  \* this.circuitBreakers: worker id -> sequence of failure times
  workerHealth,     \* this.workerHealth: worker id -> [status, frNum, frExp]
  jobLocks,         \* this.jobLocks: job id -> worker id
  roundRobinIndex,  \* this.roundRobinIndex
  metrics,          \* the counters of this.metrics
  timers,           \* pending setTimeout callbacks that re-enqueue a job object
  immediates,       \* pending setImmediate(() => this.processNextJobs())
  running,          \* handler invocations not yet settled: [ref, worker]
  emitted,          \* what the last operation emitted or threw, in order
  handlerFailures,  \* observer: worker id -> times of its handler's consecutive failures
  shutdown,         \* the shutdown() call: [pc, nextPoll, deadline], and what it observed
  waits,            \* JobQueueManager.waitForJob promises: job id -> [promise, by, value, listening, timer]
  events            \* observer: per job object, its job:started/retry/completed/failed events in order

vars == <<now, options, objs, jobs, waitingQueue, workers, workerObjs,
          processingJobs, completedJobs, failedJobs, rateLimitStore,
          circuitBreakers, workerHealth, jobLocks, roundRobinIndex, metrics,
          timers, immediates, running, emitted, handlerFailures, shutdown, waits, events>>

\* ---- helpers for Map, Set and Array ----
Range(s) == {s[i] : i \in DOMAIN s}

MapSet(m, k, v) == [x \in (DOMAIN m) \cup {k} |-> IF x = k THEN v ELSE m[x]]

MapDelete(m, k) == [x \in (DOMAIN m) \ {k} |-> m[x]]

\* Array.prototype.indexOf (1-based; 0 when absent)
IndexOf(s, x) ==
  IF \E i \in DOMAIN s : s[i] = x
  THEN CHOOSE i \in DOMAIN s : s[i] = x /\ \A j \in 1..(i - 1) : s[j] # x
  ELSE 0

\* Array.prototype.splice(i, 1)
Splice(s, i) == [j \in 1..(Len(s) - 1) |-> IF j < i THEN s[j] ELSE s[j + 1]]

RECURSIVE Pow(_, _)
Pow(b, e) == IF e <= 0 THEN 1 ELSE b * Pow(b, e - 1)

Max(S) == CHOOSE x \in S : \A y \in S : y <= x

\* ---- the comparator of processNextJobs and a stable sort by it ----
\* negative result of the comparator: a is placed before b
Before(os, a, b) ==
  IF os[a].priority # os[b].priority
  THEN os[a].priority > os[b].priority
  ELSE os[a].createdAt < os[b].createdAt

\* insert x after every element it is not strictly before (keeps the sort stable)
RECURSIVE InsertSorted(_, _, _)
InsertSorted(os, s, x) ==
  IF s = <<>> THEN <<x>>
  ELSE IF Before(os, x, s[1]) THEN <<x>> \o s
  ELSE <<s[1]>> \o InsertSorted(os, Tail(s), x)

RECURSIVE SortWaiting(_, _)
SortWaiting(os, s) ==
  IF s = <<>> THEN <<>>
  ELSE InsertSorted(os, SortWaiting(os, SubSeq(s, 1, Len(s) - 1)), s[Len(s)])

\* ---- rate limiter ----
generateRateLimitKey(type) == type

\* checkRateLimit comparing count > maxRequests
checkRateLimitOffByOne(store, key, t) ==
  IF key \notin DOMAIN store \/ t >= store[key].resetTime
  THEN [ok |-> TRUE, store |-> MapSet(store, key, [count |-> 1, resetTime |-> t + windowMs])]
  ELSE IF store[key].count > maxRequests
  THEN [ok |-> FALSE, store |-> store]
  ELSE [ok |-> TRUE,
        store |-> [store EXCEPT ![key] = [count |-> @.count + 1, resetTime |-> @.resetTime]]]

\* checkRateLimit opening the new window only when now > resetTime
checkRateLimitLateReset(store, key, t) ==
  IF key \notin DOMAIN store \/ t > store[key].resetTime
  THEN [ok |-> TRUE, store |-> MapSet(store, key, [count |-> 1, resetTime |-> t + windowMs])]
  ELSE IF store[key].count >= maxRequests
  THEN [ok |-> FALSE, store |-> store]
  ELSE [ok |-> TRUE,
        store |-> [store EXCEPT ![key] = [count |-> @.count + 1, resetTime |-> @.resetTime]]]

\* checkRateLimit: [ok, store]
checkRateLimit(store, key, t) ==
  IF key \notin DOMAIN store \/ t >= store[key].resetTime
  THEN [ok |-> TRUE, store |-> MapSet(store, key, [count |-> 1, resetTime |-> t + windowMs])]
  ELSE IF store[key].count >= maxRequests
  THEN [ok |-> FALSE, store |-> store]
  ELSE [ok |-> TRUE,
        store |-> [store EXCEPT ![key] = [count |-> @.count + 1, resetTime |-> @.resetTime]]]

\* ---- circuit breaker ----
recentFailures(fs, t) == SelectSeq(fs, LAMBDA time : t - time < monitoringPeriod)

\* checkCircuitBreaker: TRUE when the worker may be used
checkCircuitBreaker(cb, w, t) ==
  IF w \notin DOMAIN cb THEN TRUE
  ELSE LET recent == recentFailures(cb[w], t) IN
       IF Len(recent) >= failureThreshold
       THEN ~(t - Max(Range(recent)) < resetTimeout)
       ELSE TRUE

\* ---- health records ----
\* failureRate is the exact decimal frNum / 10^frExp
FailureRateAbove(h, halves) == 2 * h.frNum > halves * Pow(10, h.frExp)

Norm(n, e) == IF n = 0 THEN [frNum |-> 0, frExp |-> 0] ELSE [frNum |-> n, frExp |-> e]

\* recordSuccess
recordSuccess(wh, w) ==
  IF w \in DOMAIN wh
  THEN LET r == Norm(wh[w].frNum * 9, wh[w].frExp + 1) IN
       [wh EXCEPT ![w] = [status |-> @.status, frNum |-> r.frNum, frExp |-> r.frExp]]
  ELSE wh

\* the health part of recordFailure
recordFailureHealth(wh, w) ==
  IF w \in DOMAIN wh
  THEN LET n == wh[w].frNum * 9 + Pow(10, wh[w].frExp)
           e == wh[w].frExp + 1
           r == IF n > Pow(10, e) THEN [frNum |-> 1, frExp |-> 0] ELSE [frNum |-> n, frExp |-> e]
       IN [wh EXCEPT ![w] = [status |-> IF FailureRateAbove(r, 1) THEN "unhealthy" ELSE "degraded",
                             frNum |-> r.frNum, frExp |-> r.frExp]]
  ELSE wh

\* the breaker part of recordFailure
recordFailureBreaker(cb, w, t) ==
  IF w \in DOMAIN cb
  THEN [cb EXCEPT ![w] = SelectSeq(Append(@, t), LAMBDA time : time > t - monitoringPeriod)]
  ELSE cb

\* ---- load balancer ----
\* selectRoundRobin that does not advance the index
selectRoundRobinStuck(ws, rr) ==
  [w |-> ws[(rr % Len(ws)) + 1], rr |-> rr]

\* selectRoundRobin: [w, rr]
selectRoundRobin(ws, rr) ==
  [w |-> ws[(rr % Len(ws)) + 1], rr |-> (rr + 1) % Len(ws)]

\* Array.prototype.reduce without an initial value, from element i on, with the
\* callback of selectLeastConnections: (min, worker) => worker < min ? worker : min
RECURSIVE ReduceLeast(_, _, _, _)
ReduceLeast(wo, ws, i, min) ==
  IF i > Len(ws) THEN min
  ELSE ReduceLeast(wo, ws, i + 1,
                   IF Cardinality(wo[ws[i]].activeJobs) < Cardinality(wo[min].activeJobs)
                   THEN ws[i] ELSE min)

\* the reduce replacing the accumulator also on equal activeJobs.size: the last
\* worker of minimal activeJobs.size
selectLeastConnectionsLast(wo, ws) ==
  LET i == CHOOSE k \in DOMAIN ws :
             /\ \A j \in DOMAIN ws : Cardinality(wo[ws[k]].activeJobs) <= Cardinality(wo[ws[j]].activeJobs)
             /\ \A j \in (k + 1)..Len(ws) : Cardinality(wo[ws[j]].activeJobs) > Cardinality(wo[ws[k]].activeJobs)
  IN ws[i]

\* selectLeastConnections
selectLeastConnections(wo, ws) == ReduceLeast(wo, ws, 2, ws[1])

\* selectPriority: first element of the stable sort by ascending activeJobs.size
RECURSIVE InsertByLoad(_, _, _)
InsertByLoad(wo, s, x) ==
  IF s = <<>> THEN <<x>>
  ELSE IF Cardinality(wo[x].activeJobs) < Cardinality(wo[s[1]].activeJobs) THEN <<x>> \o s
  ELSE <<s[1]>> \o InsertByLoad(wo, Tail(s), x)

RECURSIVE SortByLoad(_, _)
SortByLoad(wo, s) ==
  IF s = <<>> THEN <<>>
  ELSE InsertByLoad(wo, SortByLoad(wo, SubSeq(s, 1, Len(s) - 1)), s[Len(s)])

selectPriority(wo, ws) == SortByLoad(wo, ws)[1]

\* findAvailableWorker falling back to the first registered worker of any type
findAvailableWorkerAnyType(st, jobType) ==
  LET ofType == SelectSeq(st.workers, LAMBDA w : st.workerObjs[w].type = jobType)
      healthyWorkers == SelectSeq(ofType,
                          LAMBDA w : w \notin DOMAIN st.workerHealth
                                     \/ st.workerHealth[w].status = "healthy")
  IN IF Len(ofType) = 0 THEN [w |-> NoWorker, rr |-> st.roundRobinIndex]
     ELSE IF Len(healthyWorkers) = 0 THEN [w |-> st.workers[1], rr |-> st.roundRobinIndex]
     ELSE IF options.strategy = "round-robin" THEN selectRoundRobin(healthyWorkers, st.roundRobinIndex)
     ELSE IF options.strategy = "least-connections"
          THEN [w |-> selectLeastConnections(st.workerObjs, healthyWorkers), rr |-> st.roundRobinIndex]
     ELSE IF options.strategy = "priority"
          THEN [w |-> selectPriority(st.workerObjs, healthyWorkers), rr |-> st.roundRobinIndex]
     ELSE [w |-> healthyWorkers[1], rr |-> st.roundRobinIndex]

\* findAvailableWorker choosing among all workers of the type, healthy or not
findAvailableWorkerIgnoresHealth(st, jobType) ==
  LET ofType == SelectSeq(st.workers, LAMBDA w : st.workerObjs[w].type = jobType)
  IN IF Len(ofType) = 0 THEN [w |-> NoWorker, rr |-> st.roundRobinIndex]
     ELSE IF options.strategy = "round-robin" THEN selectRoundRobin(ofType, st.roundRobinIndex)
     ELSE IF options.strategy = "least-connections"
          THEN [w |-> selectLeastConnections(st.workerObjs, ofType), rr |-> st.roundRobinIndex]
     ELSE IF options.strategy = "priority"
          THEN [w |-> selectPriority(st.workerObjs, ofType), rr |-> st.roundRobinIndex]
     ELSE [w |-> ofType[1], rr |-> st.roundRobinIndex]

\* findAvailableWorker on the dispatch state st: [w, rr]
findAvailableWorker(st, jobType) ==
  LET ofType == SelectSeq(st.workers, LAMBDA w : st.workerObjs[w].type = jobType)
      healthyWorkers == SelectSeq(ofType,
                          LAMBDA w : w \notin DOMAIN st.workerHealth
                                     \/ st.workerHealth[w].status = "healthy")
  IN IF Len(ofType) = 0 THEN [w |-> NoWorker, rr |-> st.roundRobinIndex]
     ELSE IF Len(healthyWorkers) = 0 THEN [w |-> ofType[1], rr |-> st.roundRobinIndex]
     ELSE IF options.strategy = "round-robin" THEN selectRoundRobin(healthyWorkers, st.roundRobinIndex)
     ELSE IF options.strategy = "least-connections"
          THEN [w |-> selectLeastConnections(st.workerObjs, healthyWorkers), rr |-> st.roundRobinIndex]
     ELSE IF options.strategy = "priority"
          THEN [w |-> selectPriority(st.workerObjs, healthyWorkers), rr |-> st.roundRobinIndex]
     ELSE [w |-> healthyWorkers[1], rr |-> st.roundRobinIndex]

\* ---- the queue object ----
\* the mutable fields of the queue, as one record the methods map to a new record
Queue ==
  [objs |-> objs, jobs |-> jobs, waitingQueue |-> waitingQueue, workers |-> workers,
   workerObjs |-> workerObjs, workerHealth |-> workerHealth,
   processingJobs |-> processingJobs, completedJobs |-> completedJobs,
   failedJobs |-> failedJobs, rateLimitStore |-> rateLimitStore,
   circuitBreakers |-> circuitBreakers, jobLocks |-> jobLocks,
   roundRobinIndex |-> roundRobinIndex, metrics |-> metrics, timers |-> timers,
   immediates |-> immediates, running |-> running, emitted |-> <<>>,
   handlerFailures |-> handlerFailures, shutdown |-> shutdown, waits |-> waits,
   events |-> events]

\* the primed variables a queue record stands for
Commit(st) ==
  /\ objs' = st.objs
  /\ jobs' = st.jobs
  /\ waitingQueue' = st.waitingQueue
  /\ workers' = st.workers
  /\ workerObjs' = st.workerObjs
  /\ workerHealth' = st.workerHealth
  /\ processingJobs' = st.processingJobs
  /\ completedJobs' = st.completedJobs
  /\ failedJobs' = st.failedJobs
  /\ rateLimitStore' = st.rateLimitStore
  /\ circuitBreakers' = st.circuitBreakers
  /\ jobLocks' = st.jobLocks
  /\ roundRobinIndex' = st.roundRobinIndex
  /\ metrics' = st.metrics
  /\ timers' = st.timers
  /\ immediates' = st.immediates
  /\ running' = st.running
  /\ emitted' = st.emitted
  /\ handlerFailures' = st.handlerFailures
  /\ shutdown' = st.shutdown
  /\ waits' = st.waits
  /\ events' = st.events

Has(es, ev) == \E i \in DOMAIN es : es[i].ev = ev

Thrown(es) == Has(es, "throw")

Emit(st, ev, ref) == [st EXCEPT !.emitted = Append(@, [ev |-> ev, ref |-> ref])]

\* ---- dispatch ----
\* processJob without the jobLocks check
processJobNoLock(st, ref, w) ==
  LET id == st.objs[ref].id IN
  IF ~checkCircuitBreaker(st.circuitBreakers, w, now)
  THEN [st EXCEPT !.metrics.circuitBreakerTrips = @ + 1,
                  !.timers = @ \cup {[ref |-> ref, due |-> now + breakerDeferDelay,
                                      checked |-> FALSE]}]
  ELSE Emit([st EXCEPT !.jobLocks = MapSet(@, id, w),
                       !.objs[ref].attempts = @ + 1,
                       !.processingJobs = @ \cup {id},
                       !.workerObjs[w].activeJobs = @ \cup {id},
                       !.running = @ \cup {[ref |-> ref, w |-> w]}],
            "job:started", ref)

\* processJob invoking the handler without counting the attempt
processJobNoCount(st, ref, w) ==
  LET id == st.objs[ref].id IN
  IF ~checkCircuitBreaker(st.circuitBreakers, w, now)
  THEN [st EXCEPT !.metrics.circuitBreakerTrips = @ + 1,
                  !.timers = @ \cup {[ref |-> ref, due |-> now + breakerDeferDelay,
                                      checked |-> FALSE]}]
  ELSE IF id \in DOMAIN st.jobLocks
  THEN st
  ELSE Emit([st EXCEPT !.jobLocks = MapSet(@, id, w),
                       !.processingJobs = @ \cup {id},
                       !.workerObjs[w].activeJobs = @ \cup {id},
                       !.running = @ \cup {[ref |-> ref, w |-> w]}],
            "job:started", ref)

\* processJob up to the await of worker.handler(job)
processJob(st, ref, w) ==
  LET id == st.objs[ref].id IN
  IF ~checkCircuitBreaker(st.circuitBreakers, w, now)
  THEN [st EXCEPT !.metrics.circuitBreakerTrips = @ + 1,
                  !.timers = @ \cup {[ref |-> ref, due |-> now + breakerDeferDelay,
                                      checked |-> FALSE]}]
  ELSE IF id \in DOMAIN st.jobLocks
  THEN st
  ELSE Emit([st EXCEPT !.jobLocks = MapSet(@, id, w),
                       !.objs[ref].attempts = @ + 1,
                       !.processingJobs = @ \cup {id},
                       !.workerObjs[w].activeJobs = @ \cup {id},
                       !.running = @ \cup {[ref |-> ref, w |-> w]}],
            "job:started", ref)

\* the loop without its check of processingJobs.size against maxConcurrency
RECURSIVE dispatchLoopNoCap(_, _)
dispatchLoopNoCap(st, i) ==
  IF i > Len(st.waitingQueue) THEN st
  ELSE LET ref == st.waitingQueue[i]
           sel == findAvailableWorker(st, st.objs[ref].type)
       IN IF sel.w = NoWorker
          THEN dispatchLoopNoCap([st EXCEPT !.roundRobinIndex = sel.rr], i + 1)
          ELSE dispatchLoopNoCap(
                 processJob([st EXCEPT !.roundRobinIndex = sel.rr,
                                       !.waitingQueue = Splice(@, IndexOf(@, ref))],
                            ref, sel.w),
                 i + 1)

\* the for...of loop of processNextJobs; i is the array iterator's next index
RECURSIVE dispatchLoop(_, _)
dispatchLoop(st, i) ==
  IF i > Len(st.waitingQueue) THEN st
  ELSE IF Cardinality(st.processingJobs) >= options.maxConcurrency THEN st
  ELSE LET ref == st.waitingQueue[i]
           sel == findAvailableWorker(st, st.objs[ref].type)
       IN IF sel.w = NoWorker
          THEN dispatchLoop([st EXCEPT !.roundRobinIndex = sel.rr], i + 1)
          ELSE dispatchLoop(
                 processJob([st EXCEPT !.roundRobinIndex = sel.rr,
                                       !.waitingQueue = Splice(@, IndexOf(@, ref))],
                            ref, sel.w),
                 i + 1)

\* processNextJobs
processNextJobs(st) ==
  IF Len(st.waitingQueue) = 0 \/ Cardinality(st.processingJobs) >= options.maxConcurrency
  THEN st
  ELSE dispatchLoop([st EXCEPT !.waitingQueue = SortWaiting(st.objs, @)], 1)

\* enqueueJob
enqueueJob(st, ref) ==
  [Emit([st EXCEPT !.waitingQueue = Append(@, ref)], "job:waiting", ref)
     EXCEPT !.immediates = @ + 1]

\* ---- add ----
RateKey(type, keyOpt) == IF keyOpt # "" THEN keyOpt ELSE generateRateLimitKey(type)

\* add storing and queueing the job before it consults the rate limiter
addCreatesFirst(st, type, priority, attempts, delay, keyOpt, jobId) ==
  LET key == RateKey(type, keyOpt)
      rl == checkRateLimit(st.rateLimitStore, key, now)
      ref == Len(st.objs) + 1
      job == [id |-> jobId, type |-> type, priority |-> priority, attempts |-> 0,
              maxAttempts |-> attempts, delay |-> delay, createdAt |-> now,
              scheduledAt |-> now + delay, completedAt |-> 0, failedAt |-> 0]
      st0 == [st EXCEPT !.rateLimitStore = rl.store,
                        !.objs = Append(@, job),
                        !.jobs = MapSet(@, jobId, ref)]
      st1 == IF job.scheduledAt <= now
             THEN enqueueJob(st0, ref)
             ELSE [st0 EXCEPT !.timers = @ \cup {[ref |-> ref, due |-> now + delay,
                                                  checked |-> TRUE]}]
  IN IF ~rl.ok
     THEN Emit([st1 EXCEPT !.metrics.rateLimitHits = @ + 1], "throw", 0)
     ELSE Emit(st1, "job:added", ref)

\* add pushing every job to the waiting queue at once, whatever its delay
addIgnoresDelay(st, type, priority, attempts, delay, keyOpt, jobId) ==
  LET key == RateKey(type, keyOpt)
      rl == checkRateLimit(st.rateLimitStore, key, now)
      ref == Len(st.objs) + 1
      job == [id |-> jobId, type |-> type, priority |-> priority, attempts |-> 0,
              maxAttempts |-> attempts, delay |-> delay, createdAt |-> now,
              scheduledAt |-> now + delay, completedAt |-> 0, failedAt |-> 0]
      st0 == [st EXCEPT !.rateLimitStore = rl.store,
                        !.objs = Append(@, job),
                        !.jobs = MapSet(@, jobId, ref)]
      st1 == enqueueJob(st0, ref)
  IN IF ~rl.ok
     THEN Emit([st EXCEPT !.metrics.rateLimitHits = @ + 1], "throw", 0)
     ELSE Emit(st1, "job:added", ref)

\* add; a rejection is the thrown Error, recorded in emitted as "throw"
add(st, type, priority, attempts, delay, keyOpt, jobId) ==
  LET key == RateKey(type, keyOpt)
      rl == checkRateLimit(st.rateLimitStore, key, now)
      ref == Len(st.objs) + 1
      job == [id |-> jobId, type |-> type, priority |-> priority, attempts |-> 0,
              maxAttempts |-> attempts, delay |-> delay, createdAt |-> now,
              scheduledAt |-> now + delay, completedAt |-> 0, failedAt |-> 0]
      st0 == [st EXCEPT !.rateLimitStore = rl.store,
                        !.objs = Append(@, job),
                        !.jobs = MapSet(@, jobId, ref)]
      st1 == IF job.scheduledAt <= now
             THEN enqueueJob(st0, ref)
             ELSE [st0 EXCEPT !.timers = @ \cup {[ref |-> ref, due |-> now + delay,
                                                  checked |-> TRUE]}]
  IN IF ~rl.ok
     THEN Emit([st EXCEPT !.metrics.rateLimitHits = @ + 1], "throw", 0)
     ELSE Emit(st1, "job:added", ref)

\* ---- registerWorker / unregisterWorker ----
\* worker ids are taken to be distinct (registrations at distinct Date.now())
registerWorker(st, type, concurrency) ==
  LET w == Len(st.workerObjs) + 1 IN
  processNextJobs(
    [st EXCEPT !.workerObjs = Append(@, [type |-> type, concurrency |-> concurrency,
                                         activeJobs |-> {}]),
               !.workers = Append(@, w),
               !.workerHealth = MapSet(@, w, [status |-> "healthy", frNum |-> 0, frExp |-> 0])])

\* unregisterWorker dropping the worker's in-flight jobs with it
unregisterWorkerCancels(st, w) ==
  IF IndexOf(st.workers, w) = 0 THEN st
  ELSE LET ids == st.workerObjs[w].activeJobs IN
       [st EXCEPT !.workers = Splice(@, IndexOf(@, w)),
                  !.workerHealth = MapDelete(@, w),
                  !.running = {r \in @ : r.w # w},
                  !.processingJobs = @ \ ids,
                  !.jobLocks = [id \in (DOMAIN @) \ ids |-> @[id]],
                  !.workerObjs[w].activeJobs = {}]

unregisterWorker(st, w) ==
  IF IndexOf(st.workers, w) = 0 THEN st
  ELSE [st EXCEPT !.workers = Splice(@, IndexOf(@, w)),
                  !.workerHealth = MapDelete(@, w)]

\* ---- callbacks ----
\* a setTimeout callback of add, handleJobError (checked) or processJob (unchecked)
timerCallback(st, t) ==
  LET st0 == [st EXCEPT !.timers = @ \ {t}] IN
  IF ~t.checked \/ st.objs[t.ref].id \in DOMAIN st.jobs
  THEN enqueueJob(st0, t.ref) ELSE st0

\* updateMetrics
updateMetrics(m, status) ==
  IF status = "completed"
  THEN [m EXCEPT !.totalJobs = @ + 1, !.completedJobs = @ + 1]
  ELSE [m EXCEPT !.totalJobs = @ + 1, !.failedJobs = @ + 1]

\* the release leaving the job id in the worker's activeJobs
releaseKeepsActive(st, r) ==
  LET id == st.objs[r.ref].id IN
  [st EXCEPT !.processingJobs = @ \ {id},
             !.jobLocks = MapDelete(@, id),
             !.running = @ \ {r}]

\* both branches of processJob after the await: the slot and the lock are released
release(st, r) ==
  LET id == st.objs[r.ref].id IN
  [st EXCEPT !.processingJobs = @ \ {id},
             !.workerObjs[r.w].activeJobs = @ \ {id},
             !.jobLocks = MapDelete(@, id),
             !.running = @ \ {r}]

\* processJob after the await, handler resolved
handlerResolved(st, r) ==
  LET st0 == release([st EXCEPT !.objs[r.ref].completedAt = now,
                                !.completedJobs = Append(@, r.ref)], r)
      st1 == Emit(st0, "job:completed", r.ref)
  IN [st1 EXCEPT !.workerHealth = recordSuccess(@, r.w),
                 !.metrics = updateMetrics(@, "completed"),
                 !.handlerFailures[r.w] = <<>>,
                 !.immediates = @ + 1]

\* handleJobError retrying while attempts <= maxAttempts
handleJobErrorOneMore(st, ref) ==
  LET job == st.objs[ref] IN
  IF job.attempts <= job.maxAttempts
  THEN LET retryDelay == job.delay * Pow(retryDelayMultiplier, job.attempts - 1) IN
       Emit([st EXCEPT !.objs[ref].scheduledAt = now + retryDelay,
                       !.timers = @ \cup {[ref |-> ref, due |-> now + retryDelay,
                                           checked |-> TRUE]}],
            "job:retry", ref)
  ELSE [Emit([st EXCEPT !.objs[ref].failedAt = now,
                        !.failedJobs = Append(@, ref)],
             "job:failed", ref)
          EXCEPT !.metrics = updateMetrics(@, "failed")]

\* handleJobError with the same delay before every retry
handleJobErrorFixedDelay(st, ref) ==
  LET job == st.objs[ref] IN
  IF job.attempts < job.maxAttempts
  THEN LET retryDelay == job.delay IN
       Emit([st EXCEPT !.objs[ref].scheduledAt = now + retryDelay,
                       !.timers = @ \cup {[ref |-> ref, due |-> now + retryDelay,
                                           checked |-> TRUE]}],
            "job:retry", ref)
  ELSE [Emit([st EXCEPT !.objs[ref].failedAt = now,
                        !.failedJobs = Append(@, ref)],
             "job:failed", ref)
          EXCEPT !.metrics = updateMetrics(@, "failed")]

\* handleJobError emitting job:failed for every failed attempt
handleJobErrorFailsEachAttempt(st, ref) ==
  LET job == st.objs[ref] IN
  IF job.attempts < job.maxAttempts
  THEN LET retryDelay == job.delay * Pow(retryDelayMultiplier, job.attempts - 1) IN
       Emit([st EXCEPT !.objs[ref].scheduledAt = now + retryDelay,
                       !.timers = @ \cup {[ref |-> ref, due |-> now + retryDelay,
                                           checked |-> TRUE]}],
            "job:failed", ref)
  ELSE [Emit([st EXCEPT !.objs[ref].failedAt = now,
                        !.failedJobs = Append(@, ref)],
             "job:failed", ref)
          EXCEPT !.metrics = updateMetrics(@, "failed")]

\* handleJobError
handleJobError(st, ref) ==
  LET job == st.objs[ref] IN
  IF job.attempts < job.maxAttempts
  THEN LET retryDelay == job.delay * Pow(retryDelayMultiplier, job.attempts - 1) IN
       Emit([st EXCEPT !.objs[ref].scheduledAt = now + retryDelay,
                       !.timers = @ \cup {[ref |-> ref, due |-> now + retryDelay,
                                           checked |-> TRUE]}],
            "job:retry", ref)
  ELSE [Emit([st EXCEPT !.objs[ref].failedAt = now,
                        !.failedJobs = Append(@, ref)],
             "job:failed", ref)
          EXCEPT !.metrics = updateMetrics(@, "failed")]

\* the last failureThreshold consecutive failures of a worker's handler
NoteFailure(fs, t) ==
  LET all == Append(fs, t) IN
  IF Len(all) > failureThreshold THEN SubSeq(all, Len(all) - failureThreshold + 1, Len(all))
  ELSE all

\* processJob after the await, handler rejected
handlerRejected(st, r) ==
  LET st0 == release(st, r)
      st1 == [st0 EXCEPT !.workerHealth = recordFailureHealth(@, r.w),
                         !.circuitBreakers = recordFailureBreaker(@, r.w, now),
                         !.handlerFailures[r.w] = NoteFailure(@, now)]
  IN [handleJobError(st1, r.ref) EXCEPT !.immediates = @ + 1]

\* processJob after the await, handler rejected with undefined or null: the catch
\* block releases the job and records the failure, then handleJobError throws a
\* TypeError at error.message; the rejection of processJob's promise is unhandled
handlerRejectedNoReason(st, r) ==
  LET st0 == release(st, r)
      st1 == [st0 EXCEPT !.workerHealth = recordFailureHealth(@, r.w),
                         !.circuitBreakers = recordFailureBreaker(@, r.w, now),
                         !.handlerFailures[r.w] = NoteFailure(@, now)]
  IN Emit(st1, "throw", 0)

\* processJob after the await, handler resolved and a listener on job:completed
\* throws: emit is called inside the try block, so recordSuccess and updateMetrics
\* are skipped and the catch block treats the completed job as a failed attempt
handlerResolvedListenerThrows(st, r) ==
  LET st0 == release([st EXCEPT !.objs[r.ref].completedAt = now,
                                !.completedJobs = Append(@, r.ref)], r)
      st1 == Emit(st0, "job:completed", r.ref)
      st2 == [st1 EXCEPT !.workerHealth = recordFailureHealth(@, r.w),
                         !.circuitBreakers = recordFailureBreaker(@, r.w, now),
                         !.handlerFailures[r.w] = <<>>]
  IN [handleJobError(st2, r.ref) EXCEPT !.immediates = @ + 1]

\* performHealthChecks, for workers registered without a healthCheck option
performHealthChecks(st) ==
  [st EXCEPT !.workerHealth =
     [w \in DOMAIN @ |-> IF IndexOf(st.workers, w) # 0
                         THEN [@[w] EXCEPT !.status = "healthy"] ELSE @[w]]]

\* ---- cleanup ----
\* (job.completedAt || job.failedAt || 0)
SettledAt(job) == IF job.completedAt # 0 THEN job.completedAt ELSE job.failedAt

\* cleanup deleting from the Job Store every job created before the horizon
cleanupByAge(st) ==
  LET oneDayAgo == now - retention
      completed == SelectSeq(st.completedJobs, LAMBDA ref : st.objs[ref].completedAt > oneDayAgo)
      failed == SelectSeq(st.failedJobs, LAMBDA ref : st.objs[ref].failedAt > oneDayAgo)
      deleted == {st.objs[ref].id : ref \in {x \in DOMAIN st.objs :
                                               st.objs[x].createdAt <= oneDayAgo}}
  IN [st EXCEPT !.completedJobs = completed,
                !.failedJobs = failed,
                !.jobs = [id \in (DOMAIN @) \ deleted |-> @[id]]]

\* cleanup: the lists are filtered first, the loop then runs over what is left
cleanup(st) ==
  LET oneDayAgo == now - retention
      completed == SelectSeq(st.completedJobs, LAMBDA ref : st.objs[ref].completedAt > oneDayAgo)
      failed == SelectSeq(st.failedJobs, LAMBDA ref : st.objs[ref].failedAt > oneDayAgo)
      deleted == {st.objs[ref].id : ref \in {x \in Range(completed \o failed) :
                                               SettledAt(st.objs[x]) <= oneDayAgo}}
  IN [st EXCEPT !.completedJobs = completed,
                !.failedJobs = failed,
                !.jobs = [id \in (DOMAIN @) \ deleted |-> @[id]]]

\* ---- shutdown ----
\* the end of shutdown, after the await: `by` records which promise won the race
shutdownReturn(st, by) ==
  [st EXCEPT !.workers = <<>>,
             !.shutdown.pc = "returned",
             !.shutdown.by = by]

\* shutdown leaving the waiting list as it is
shutdownKeepsWaiting(st) ==
  LET st0 == [st EXCEPT !.shutdown = [pc |-> "draining",
                                      nextPoll |-> now + shutdownPollInterval,
                                      deadline |-> now + shutdownTimeout,
                                      by |-> "",
                                      atCall |-> {r.ref : r \in st.running},
                                      discarded |-> Range(st.waitingQueue)]]
  IN IF st.processingJobs = {} THEN shutdownReturn(st0, "drained") ELSE st0

\* shutdown up to the await; with nothing processing the first promise is
\* resolved at once and the rest of shutdown runs before any other callback
shutdown_(st) ==
  LET st0 == [st EXCEPT !.waitingQueue = <<>>,
                        !.shutdown = [pc |-> "draining",
                                      nextPoll |-> now + shutdownPollInterval,
                                      deadline |-> now + shutdownTimeout,
                                      by |-> "",
                                      atCall |-> {r.ref : r \in st.running},
                                      discarded |-> Range(st.waitingQueue)]]
  IN IF st.processingJobs = {} THEN shutdownReturn(st0, "drained") ELSE st0

\* the setInterval callback of shutdown
shutdownPoll(st) ==
  IF st.processingJobs = {}
  THEN shutdownReturn(st, "drained")
  ELSE [st EXCEPT !.shutdown.nextPoll = now + shutdownPollInterval]

\* a timeout callback that gives up only when nothing is processing
shutdownTimedOutWaits(st) ==
  IF st.processingJobs = {} THEN shutdownReturn(st, "timeout") ELSE st

\* the setTimeout callback of shutdown
shutdownTimedOut(st) == shutdownReturn(st, "timeout")

\* ---- control API ----
resetRateLimit(st, key) == [st EXCEPT !.rateLimitStore = MapDelete(@, key)]

resetCircuitBreaker(st, w) == [st EXCEPT !.circuitBreakers = MapDelete(@, w)]

\* ---- status reads and auto-scaling ----
\* a status read that also counts itself in the metrics
getMetricsCounting(st) ==
  LET st0 == [st EXCEPT !.metrics.totalJobs = @ + 1] IN
  Emit(st0, "return", st0.metrics)

\* getQueueStatus; the returned object is recorded as the "return" of the call
getQueueStatus(st) ==
  Emit(st, "return",
       [waiting |-> Len(st.waitingQueue),
        active |-> Cardinality(st.processingJobs),
        completed |-> Len(st.completedJobs),
        failed |-> Len(st.failedJobs),
        workers |-> [i \in DOMAIN st.workers |->
                       LET w == st.workers[i] IN
                       [id |-> w, type |-> st.workerObjs[w].type,
                        activeJobs |-> Cardinality(st.workerObjs[w].activeJobs),
                        concurrency |-> st.workerObjs[w].concurrency,
                        health |-> IF w \in DOMAIN st.workerHealth
                                   THEN st.workerHealth[w].status ELSE "unknown"]]])

\* getMetrics: { ...this.metrics }
getMetrics(st) == Emit(st, "return", st.metrics)

\* evaluateScaling asking for more workers from queuePressure >= 1 on
evaluateScalingAtThreshold(st) ==
  LET waiting == Len(st.waitingQueue)
      st0 == IF waiting >= scaleUpThreshold
             THEN Emit([st EXCEPT !.metrics.autoScalingEvents = @ + 1], "scaling:needed:up", 0)
             ELSE st
  IN IF 5 * waiting < scaleUpThreshold /\ waiting = 0
     THEN Emit(st0, "scaling:needed:down", 0)
     ELSE st0

\* evaluateScaling; queuePressure = waiting / scaleUpThreshold is compared with 1
\* and with 0.2 = 1/5
evaluateScaling(st) ==
  LET waiting == Len(st.waitingQueue)
      st0 == IF waiting > scaleUpThreshold
             THEN Emit([st EXCEPT !.metrics.autoScalingEvents = @ + 1], "scaling:needed:up", 0)
             ELSE st
  IN IF 5 * waiting < scaleUpThreshold /\ waiting = 0
     THEN Emit(st0, "scaling:needed:down", 0)
     ELSE st0

\* ---- JobQueueManager.waitForJob ----
\* resolve / reject of a Promise: only the first call settles it
Settle(w, promise, by, value) ==
  IF w.promise = "pending"
  THEN [w EXCEPT !.promise = promise, !.by = by, !.value = value]
  ELSE w

\* waitForJob: the Promise executor arms the timeout and adds both listeners
waitForJob(st, jobId) ==
  [st EXCEPT !.waits = MapSet(@, jobId,
     [promise |-> "pending", by |-> "", value |-> [ref |-> 0, attempt |-> 0],
      listening |-> TRUE, timer |-> TRUE])]

\* the setTimeout callback of waitForJob
waitTimedOut(st, jobId) ==
  [st EXCEPT !.waits[jobId] = [Settle(@, "rejected", "timeout", @.value) EXCEPT !.timer = FALSE]]

\* onComplete and onFailed; the handler's result is named by the job object and
\* the attempt that returned it
onSettled(w, ev, ref, attempt) ==
  [Settle(w, IF ev = "job:completed" THEN "resolved" ELSE "rejected",
          IF ev = "job:completed" THEN "completed" ELSE "failed",
          [ref |-> ref, attempt |-> IF ev = "job:completed" THEN attempt ELSE 0])
     EXCEPT !.listening = FALSE, !.timer = FALSE]

\* the events of the operation reach the listeners in the order of emission
RECURSIVE Deliver(_, _)
Deliver(st, i) ==
  IF i > Len(st.emitted) THEN st
  ELSE LET e == st.emitted[i] IN
       IF e.ev \in {"job:completed", "job:failed"}
          /\ st.objs[e.ref].id \in DOMAIN st.waits
          /\ st.waits[st.objs[e.ref].id].listening
       THEN Deliver([st EXCEPT !.waits[st.objs[e.ref].id] =
                       onSettled(@, e.ev, e.ref, st.objs[e.ref].attempts)], i + 1)
       ELSE Deliver(st, i + 1)

\* a listener on job:started, job:retry, job:completed and job:failed that
\* appends each event to the history of its job object
JobEvents == {"job:started", "job:retry", "job:completed", "job:failed"}

RECURSIVE Record(_, _)
Record(st, i) ==
  IF i > Len(st.emitted) THEN st
  ELSE LET e == st.emitted[i] IN
       IF e.ev \in JobEvents
       THEN Record([st EXCEPT !.events =
                      MapSet(@, e.ref, (IF e.ref \in DOMAIN @ THEN @[e.ref] ELSE <<>>) \o <<e.ev>>)],
                   i + 1)
       ELSE Record(st, i + 1)

\* ---- the state after construction ----
InitWith(strategies, caps) ==
  /\ now = 1
  /\ options \in [strategy : strategies, maxConcurrency : caps]
  /\ objs = <<>>
  /\ jobs = <<>>
  /\ waitingQueue = <<>>
  /\ workers = <<>>
  /\ workerObjs = <<>>
  /\ processingJobs = {}
  /\ completedJobs = <<>>
  /\ failedJobs = <<>>
  /\ rateLimitStore = [k \in {} |-> 0]
  /\ circuitBreakers = <<>>
  /\ workerHealth = <<>>
  /\ jobLocks = <<>>
  /\ roundRobinIndex = 0
  /\ metrics = [totalJobs |-> 0, completedJobs |-> 0, failedJobs |-> 0,
                rateLimitHits |-> 0, circuitBreakerTrips |-> 0, autoScalingEvents |-> 0]
  /\ timers = {}
  /\ immediates = 0
  /\ running = {}
  /\ emitted = <<>>
  /\ handlerFailures = <<>>
  /\ shutdown = [pc |-> "idle", nextPoll |-> 0, deadline |-> 0, by |-> "", atCall |-> {},
                 discarded |-> {}]
  /\ waits = <<>>
  /\ events = <<>>

Init == InitWith(Strategies, MaxConcurrencyOptions)

\* ---- actions: one per call, callback or settlement ----
\* EventEmitter.emit calls the listeners synchronously, so they have run when the
\* operation ends
Step(st) == Commit(Record(Deliver(st, 1), 1)) /\ UNCHANGED <<now, options>>

\* options.jobId || generateJobId(): an id already in the Job Store, or a fresh one
IdChoices == (DOMAIN jobs) \cup {Len(jobs) + 1}

Add(type, priority, attempts, delay, keyOpt, jobId, maxObjs) ==
  LET st == add(Queue, type, priority, attempts, delay, keyOpt, jobId) IN
  /\ Len(objs) < maxObjs \/ Thrown(st.emitted)
  /\ st.immediates <= MaxImmediates
  /\ st.metrics.rateLimitHits <= MaxHits
  /\ Step(st)

RegisterWorker(type, concurrency, maxWorkers) ==
  /\ Len(workerObjs) < maxWorkers
  /\ Step([registerWorker(Queue, type, concurrency)
             EXCEPT !.handlerFailures = Append(@, <<>>)])

UnregisterWorker(w) ==
  /\ IndexOf(workers, w) # 0
  /\ Step(unregisterWorker(Queue, w))

RunImmediate ==
  /\ immediates > 0
  /\ Step(processNextJobs([Queue EXCEPT !.immediates = @ - 1]))

TimerFire(t) ==
  /\ t.due <= now
  /\ immediates < MaxImmediates
  /\ Step(timerCallback(Queue, t))

HandlerResolve(r) ==
  /\ immediates < MaxImmediates
  /\ Step(handlerResolved(Queue, r))

HandlerReject(r) ==
  /\ immediates < MaxImmediates
  /\ Step(handlerRejected(Queue, r))

HandlerRejectNoReason(r) == Step(handlerRejectedNoReason(Queue, r))

HandlerResolveListenerThrows(r) ==
  /\ immediates < MaxImmediates
  /\ Step(handlerResolvedListenerThrows(Queue, r))

PerformHealthChecks ==
  /\ shutdown.pc = "idle"
  /\ \E w \in DOMAIN workerHealth : workerHealth[w].status # "healthy"
  /\ Step(performHealthChecks(Queue))

ResetRateLimit(key) == Step(resetRateLimit(Queue, key))

ResetCircuitBreaker(w) == Step(resetCircuitBreaker(Queue, w))

\* the setInterval callback of startCleanupScheduler
Cleanup ==
  /\ shutdown.pc = "idle"
  /\ Step(cleanup(Queue))

\* shutdown() is called; the deadline lies within the explored time
Shutdown(maxTime) ==
  /\ shutdown.pc = "idle"
  /\ now + shutdownTimeout <= maxTime
  /\ Step(shutdown_(Queue))

ShutdownPoll ==
  /\ shutdown.pc = "draining"
  /\ now >= shutdown.nextPoll
  /\ Step(shutdownPoll(Queue))

ShutdownTimeout ==
  /\ shutdown.pc = "draining"
  /\ now >= shutdown.deadline
  /\ Step(shutdownTimedOut(Queue))

WaitForJob(jobId) ==
  /\ jobId \notin DOMAIN waits
  /\ Step(waitForJob(Queue, jobId))

WaitTimeout(jobId) ==
  /\ waits[jobId].timer
  /\ Step(waitTimedOut(Queue, jobId))

GetQueueStatus == Step(getQueueStatus(Queue))

GetMetrics == Step(getMetrics(Queue))

\* the setInterval callback of startAutoScaling
EvaluateScaling ==
  LET st == evaluateScaling(Queue) IN
  /\ st.metrics.autoScalingEvents <= MaxScaleEvents
  /\ Step(st)

\* the clock advances
Tick(maxTime) ==
  /\ now < maxTime
  /\ now' = now + 1
  /\ Commit(Queue)
  /\ UNCHANGED options

\* ---- the engine: submission, registration, dispatch, settlement, health checks ----
Next ==
  \/ \E type \in Types, priority \in Priorities, attempts \in AttemptOptions,
        delay \in DelayOptions, keyOpt \in KeyOptions, jobId \in IdChoices :
       Add(type, priority, attempts, delay, keyOpt, jobId, MaxObjs)
  \/ \E type \in Types, concurrency \in ConcurrencyOptions :
       RegisterWorker(type, concurrency, MaxWorkers)
  \/ RunImmediate
  \/ \E t \in timers : TimerFire(t)
  \/ \E r \in running : HandlerResolve(r)
  \/ \E r \in running : HandlerReject(r)
  \/ PerformHealthChecks
  \/ \E w \in Range(workers) : UnregisterWorker(w)

Spec == Init /\ [][Next]_vars

\* ---- three waiting jobs: one worker, jobs with unique ids and one attempt ----
PrioPriorities == {3, 5, 9}
PrioKeyOptions == {"", "k"}

InitPrio == InitWith({"least-connections"}, MaxConcurrencyOptions)

NextPrio ==
  \/ \E type \in Types, priority \in PrioPriorities, keyOpt \in PrioKeyOptions :
       Add(type, priority, 1, 0, keyOpt, Len(jobs) + 1, MaxPrioObjs)
  \/ \E type \in Types : RegisterWorker(type, 1, 1)
  \/ RunImmediate
  \/ \E r \in running : HandlerResolve(r)
  \/ \E r \in running : HandlerReject(r)

SpecPrio == InitPrio /\ [][NextPrio]_vars

\* ---- delayed jobs, retries with backoff and cleanup as time passes ----
TimedAttemptOptions == {1, 3}
TimedDelayOptions == {1}

InitTimed == InitWith({"least-connections"}, {2})

NextTimed ==
  \/ \E type \in Types, attempts \in TimedAttemptOptions, delay \in TimedDelayOptions :
       Add(type, 5, attempts, delay, "", Len(objs) + 1, MaxTimedObjs)
  \/ \E type \in Types : RegisterWorker(type, 1, 1)
  \/ RunImmediate
  \/ \E t \in timers : TimerFire(t)
  \/ \E r \in running : HandlerResolve(r)
  \/ \E r \in running : HandlerReject(r)
  \/ Cleanup
  \/ Tick(MaxTimedTime)

SpecTimed == InitTimed /\ [][NextTimed]_vars

\* ---- shutdown while jobs are submitted, run and settle; no worker is
\* registered once shutdown has been called ----
InitShut == InitWith({"least-connections"}, {2})

NextShut ==
  \/ \E type \in Types : Add(type, 5, 1, 0, "", Len(objs) + 1, MaxShutObjs)
  \/ \E type \in Types : shutdown.pc = "idle" /\ RegisterWorker(type, 1, 1)
  \/ RunImmediate
  \/ \E r \in running : HandlerResolve(r)
  \/ \E r \in running : HandlerReject(r)
  \/ Shutdown(MaxShutTime)
  \/ ShutdownPoll
  \/ ShutdownTimeout
  \/ Tick(MaxShutTime)

SpecShut == InitShut /\ [][NextShut]_vars

\* the event loop runs shutdown's timeout callback once it is due, and time passes
SpecShutFair ==
  /\ SpecShut
  /\ WF_vars(Tick(MaxShutTime))
  /\ WF_vars(ShutdownTimeout)

\* ---- shutdown with a job running, a job waiting and a job submitted later ----
NextDiscard ==
  \/ \E type \in Types : Add(type, 5, 1, 0, "", Len(objs) + 1, MaxDiscardObjs)
  \/ \E type \in Types : shutdown.pc = "idle" /\ RegisterWorker(type, 1, 1)
  \/ RunImmediate
  \/ \E r \in running : HandlerResolve(r)
  \/ \E r \in running : HandlerReject(r)
  \/ Shutdown(MaxShutTime)
  \/ ShutdownPoll
  \/ ShutdownTimeout
  \/ Tick(MaxShutTime)

SpecDiscard == InitShut /\ [][NextDiscard]_vars

\* ---- jobs and workers of two types ----
TwoTypes == {"llm_request", "cache_miss"}
TypeStrategies == {"round-robin", "least-connections", "priority"}

InitTypes == InitWith(TypeStrategies, {2})

NextTypes ==
  \/ \E type \in TwoTypes : Add(type, 5, 1, 0, "", Len(objs) + 1, MaxTypeObjs)
  \/ \E type \in TwoTypes : RegisterWorker(type, 1, MaxWorkers)
  \/ RunImmediate
  \/ \E r \in running : HandlerResolve(r)
  \/ \E r \in running : HandlerReject(r)
  \/ PerformHealthChecks

SpecTypes == InitTypes /\ [][NextTypes]_vars

\* ---- the rate limiter over several windows ----
RateKeyOptions == {"", "k"}

InitRate == InitWith({"least-connections"}, {2})

NextRate ==
  \/ \E type \in Types, keyOpt \in RateKeyOptions :
       Add(type, 5, 1, 0, keyOpt, Len(jobs) + 1, MaxRateObjs)
  \/ RunImmediate
  \/ \E key \in DOMAIN rateLimitStore : ResetRateLimit(key)
  \/ Tick(MaxTime)

SpecRate == InitRate /\ [][NextRate]_vars

\* ---- jobs of two types with unique ids, a worker that stays registered,
\* handlers that reject with or without a reason, status reads and the
\* auto-scaling evaluation ----
InitLive == InitWith({"least-connections"}, MaxConcurrencyOptions)

NextLive ==
  \/ \E type \in TwoTypes, attempts \in AttemptOptions :
       Add(type, 5, attempts, 0, "", Len(objs) + 1, MaxLiveObjs)
  \/ \E type \in TwoTypes : RegisterWorker(type, 1, MaxLiveWorkers)
  \/ RunImmediate
  \/ \E t \in timers : TimerFire(t)
  \/ \E r \in running : HandlerResolve(r)
  \/ \E r \in running : HandlerReject(r)
  \/ \E r \in running : HandlerRejectNoReason(r)
  \/ \E r \in running : HandlerResolveListenerThrows(r)
  \/ GetQueueStatus
  \/ GetMetrics
  \/ EvaluateScaling

SpecLive == InitLive /\ [][NextLive]_vars

\* ---- callers awaiting a job's outcome through waitForJob ----
InitWait == InitWith({"least-connections"}, {2})

NextWait ==
  \/ \E type \in Types, attempts \in AttemptOptions :
       Add(type, 5, attempts, 0, "", Len(objs) + 1, MaxWaitObjs)
  \/ \E type \in Types : RegisterWorker(type, 1, 1)
  \/ RunImmediate
  \/ \E t \in timers : TimerFire(t)
  \/ \E r \in running : HandlerResolve(r)
  \/ \E r \in running : HandlerReject(r)
  \/ \E jobId \in 1..MaxWaitObjs : WaitForJob(jobId)
  \/ \E jobId \in DOMAIN waits : WaitTimeout(jobId)

SpecWait == InitWait /\ [][NextWait]_vars

\* ---- submissions under the default rate-limit key of their type as time passes ----
InitWindow == InitWith({"least-connections"}, {2})

NextWindow ==
  \/ \E type \in TwoTypes : Add(type, 5, 1, 0, "", Len(jobs) + 1, MaxWindowObjs)
  \/ RunImmediate
  \/ Tick(MaxTime)

SpecWindow == InitWindow /\ [][NextWindow]_vars

\* ---- jobs of one priority submitted at different times, one worker ----
InitFifo == InitWith({"least-connections"}, {2})

NextFifo ==
  \/ \E type \in Types : Add(type, 5, 1, 0, "", Len(jobs) + 1, MaxFifoObjs)
  \/ \E type \in Types : RegisterWorker(type, 1, 1)
  \/ RunImmediate
  \/ \E r \in running : HandlerResolve(r)
  \/ \E r \in running : HandlerReject(r)
  \/ Tick(MaxTime)

SpecFifo == InitFifo /\ [][NextFifo]_vars

\* ---- jobs submitted with and without a delay ----
DelayChoices == {0, 2}

InitDelay == InitWith({"least-connections"}, {2})

NextDelay ==
  \/ \E type \in Types, attempts \in AttemptOptions, delay \in DelayChoices :
       Add(type, 5, attempts, delay, "", Len(jobs) + 1, MaxDelayObjs)
  \/ \E type \in Types : RegisterWorker(type, 1, 1)
  \/ RunImmediate
  \/ \E t \in timers : TimerFire(t)
  \/ \E r \in running : HandlerResolve(r)
  \/ \E r \in running : HandlerReject(r)
  \/ Tick(MaxTimedTime)

SpecDelay == InitDelay /\ [][NextDelay]_vars

\* ---- worker selection: up to three workers of one type, loaded unevenly ----
SelectStrategies == {"round-robin", "least-connections", "priority"}

InitSelect == InitWith(SelectStrategies, {3})

NextSelect ==
  \/ \E type \in Types : Add(type, 5, 1, 0, "", Len(jobs) + 1, MaxSelectObjs)
  \/ \E type \in Types : RegisterWorker(type, 1, MaxSelectWorkers)
  \/ RunImmediate
  \/ \E r \in running : HandlerResolve(r)

SpecSelect == InitSelect /\ [][NextSelect]_vars

\* ---- properties ----
WaitingIds == {objs[waitingQueue[i]].id : i \in DOMAIN waitingQueue}

HeldIds == processingJobs \cup UNION {workerObjs[w].activeJobs : w \in DOMAIN workerObjs}

\* C1: in a dispatch pass no job is started while a waiting job of the same type
\* and strictly higher priority is left waiting by that pass (so priorities
\* 3, 9, 5 on one worker start in the order 9, 5, 3).
C1_PriorityRespected ==
  [][\A r \in running' \ running :
       \A i \in DOMAIN waitingQueue' :
         LET left == waitingQueue'[i] IN
         (IndexOf(waitingQueue, left) # 0 /\ objs[left].type = objs[r.ref].type)
           => objs[left].priority <= objs[r.ref].priority]_vars

\* C2: every worker holds at most `concurrency` job ids in activeJobs.
C2_WorkerCapacity ==
  \A w \in DOMAIN workerObjs :
    Cardinality(workerObjs[w].activeJobs) <= workerObjs[w].concurrency

\* C3: processingJobs never exceeds maxConcurrency, and a step that begins with
\* the cap reached starts no job.
C3_GlobalCap ==
  /\ [](Cardinality(processingJobs) <= options.maxConcurrency)
  /\ [][Cardinality(processingJobs) >= options.maxConcurrency => running' \subseteq running]_vars

\* a pass has started a job, reached the cap and left two jobs waiting: the
\* iteration of the pass would have reached the second of them
C3_CapLeavesJobWaiting ==
  /\ Cardinality(processingJobs) = options.maxConcurrency
  /\ Has(emitted, "job:started")
  /\ Len(waitingQueue) >= 2
  /\ workers # <<>>

\* C4: a job id is in the activeJobs of at most one worker.
C4_NoDoubleDispatch ==
  \A w1, w2 \in DOMAIN workerObjs :
    w1 # w2 => workerObjs[w1].activeJobs \cap workerObjs[w2].activeJobs = {}

\* a re-submitted id: one object of the id is running while another object of the
\* same id has been taken from the waiting queue by a pass, with two workers registered
C4_ResubmittedWhileRunning ==
  /\ Len(workers) = 2
  /\ \E r \in running : \E ref \in DOMAIN objs :
       /\ ref # r.ref
       /\ objs[ref].id = objs[r.ref].id
       /\ objs[ref].attempts = 0
       /\ IndexOf(waitingQueue, ref) = 0
       /\ \A t \in timers : t.ref # ref

\* C5: a job id in the waiting queue is not held by a worker.
C5_WaitingNotHeld == WaitingIds \cap HeldIds = {}

\* C6: every job of the Job Store is exactly one of active, completed, failed;
\* a completed or failed job is neither waiting nor held by a worker.
IsActive(id) ==
  \/ id \in WaitingIds
  \/ id \in HeldIds
  \/ \E t \in timers : objs[t.ref].id = id

IsCompleted(id) == \E i \in DOMAIN completedJobs : objs[completedJobs[i]].id = id

IsFailed(id) == \E i \in DOMAIN failedJobs : objs[failedJobs[i]].id = id

C6_ExactlyOneCondition ==
  \A id \in DOMAIN jobs :
    /\ IsActive(id) \/ IsCompleted(id) \/ IsFailed(id)
    /\ ~(IsActive(id) /\ IsCompleted(id))
    /\ ~(IsActive(id) /\ IsFailed(id))
    /\ ~(IsCompleted(id) /\ IsFailed(id))

\* C7: an add admitted before its key's reset time counts one in the key's
\* window, and while the window holds maxRequests admissions and has not reached
\* its reset time, every add under that key throws and creates nothing.
Saturated(key) ==
  /\ key \in DOMAIN rateLimitStore
  /\ now < rateLimitStore[key].resetTime
  /\ rateLimitStore[key].count >= maxRequests

C7_SaturatedWindowRejects ==
  /\ [][\A type \in Types, keyOpt \in RateKeyOptions :
       (Saturated(RateKey(type, keyOpt))
          /\ Add(type, 5, 1, 0, keyOpt, Len(jobs) + 1, MaxRateObjs))
         => (Thrown(emitted') /\ objs' = objs /\ rateLimitStore' = rateLimitStore)]_vars
  /\ [][\A type \in Types, keyOpt \in RateKeyOptions :
          LET key == RateKey(type, keyOpt) IN
          (/\ key \in DOMAIN rateLimitStore
           /\ now < rateLimitStore[key].resetTime
           /\ Add(type, 5, 1, 0, keyOpt, Len(jobs) + 1, MaxRateObjs)
           /\ ~Thrown(emitted'))
            => /\ rateLimitStore[key].count < maxRequests
               /\ rateLimitStore' =
                    [rateLimitStore EXCEPT ![key].count = @ + 1]]_vars

\* an add has just been rejected under a key whose window is full and open
C7_RejectedInWindow ==
  /\ Thrown(emitted)
  /\ \E key \in DOMAIN rateLimitStore : Saturated(key)
  /\ Len(objs) >= maxRequests

\* C8: an add at or after a key's reset time is admitted and starts a new window
\* {count 1, resetTime now + windowMs}, whatever the old window counted.
Expired(key) == key \in DOMAIN rateLimitStore /\ now >= rateLimitStore[key].resetTime

C8_ExpiredWindowAdmits ==
  [][\A type \in Types, keyOpt \in RateKeyOptions :
       LET key == RateKey(type, keyOpt) IN
       (Expired(key) /\ Add(type, 5, 1, 0, keyOpt, Len(jobs) + 1, MaxRateObjs))
         => /\ ~Thrown(emitted')
            /\ Has(emitted', "job:added")
            /\ Len(objs') = Len(objs) + 1
            /\ rateLimitStore'[key] = [count |-> 1, resetTime |-> now + windowMs]]_vars

\* an add was admitted after the one key's window had been filled, had rejected a
\* submission and had run out
C8_AdmittedAfterReset ==
  /\ Has(emitted, "job:added")
  /\ metrics.rateLimitHits > 0
  /\ Len(objs) = maxRequests + 1
  /\ \E key \in DOMAIN rateLimitStore :
       /\ DOMAIN rateLimitStore = {key}
       /\ rateLimitStore[key] = [count |-> 1, resetTime |-> now + windowMs]
       /\ now >= 1 + windowMs

\* C9: an add that throws leaves everything but metrics.rateLimitHits as it was
\* and emits no job:added.
C9_RejectedAddCreatesNothing ==
  [][Thrown(emitted') =>
       /\ ~Has(emitted', "job:added")
       /\ metrics' = [metrics EXCEPT !.rateLimitHits = @ + 1]
       /\ UNCHANGED <<now, options, objs, jobs, waitingQueue, workers, workerObjs,
                      processingJobs, completedJobs, failedJobs, rateLimitStore,
                      circuitBreakers, workerHealth, jobLocks, roundRobinIndex,
                      timers, immediates, running>>]_vars

\* an add was rejected while one job was being processed and another was waiting
C9_RejectedWhileBusy ==
  /\ Thrown(emitted)
  /\ processingJobs # {}
  /\ waitingQueue # <<>>

\* C10: a worker whose handler failed failureThreshold consecutive times within
\* monitoringPeriod is given no job until resetTimeout has passed since the last
\* of these failures.
ShouldBeOpen(w) ==
  LET fs == IF w \in DOMAIN handlerFailures THEN handlerFailures[w] ELSE <<>> IN
  /\ Len(fs) >= failureThreshold
  /\ \A i \in DOMAIN fs : now - fs[i] < monitoringPeriod
  /\ now - fs[Len(fs)] < resetTimeout

C10_OpenBreakerExcludesWorker ==
  [][\A r \in running' \ running : ~ShouldBeOpen(r.w)]_vars

Occurrences(s, x) == Cardinality({i \in DOMAIN s : s[i] = x})

C13_CleanupPurgesJobStore ==
  [][Cleanup =>
       \A ref \in Range(completedJobs) \cup Range(failedJobs) :
         SettledAt(objs[ref]) < now - retention => objs[ref].id \notin DOMAIN jobs']_vars

\* C14: a cleanup pass leaves the waiting queue, the processing set, the timers
\* and the running handlers as they are, and keeps the Job Store entry of every
\* job that is scheduled, waiting, retry-waiting or being processed.
ActiveRefs ==
  Range(waitingQueue) \cup {t.ref : t \in timers} \cup {r.ref : r \in running}

C14_CleanupKeepsActiveJobs ==
  [][Cleanup =>
       /\ UNCHANGED <<waitingQueue, processingJobs, timers, running, jobLocks>>
       /\ \A ref \in ActiveRefs :
            objs[ref].id \in DOMAIN jobs
              => objs[ref].id \in DOMAIN jobs' /\ jobs'[objs[ref].id] = jobs[objs[ref].id]]_vars

\* a cleanup pass has purged a completed record while a job created before the
\* horizon is still scheduled, waiting or running
C14_OldJobStillActive ==
  /\ Len(completedJobs) < metrics.completedJobs
  /\ \E ref \in ActiveRefs :
       /\ objs[ref].createdAt < now - retention
       /\ objs[ref].id \in DOMAIN jobs

\* C15: when shutdown was called with jobs active and the handler of each of
\* them has resolved before the deadline, shutdown returns with no id in
\* processingJobs and none in any worker's activeJobs.
ShutdownReturns == shutdown.pc # "returned" /\ shutdown'.pc = "returned"

C15_GracefulShutdown ==
  [][(/\ ShutdownReturns
      /\ shutdown'.atCall # {}
      /\ \A ref \in shutdown'.atCall :
           /\ ref \in Range(completedJobs')
           /\ objs'[ref].completedAt < shutdown'.deadline)
       => /\ processingJobs' = {}
          /\ \A w \in DOMAIN workerObjs' : workerObjs'[w].activeJobs = {}]_vars

\* C16: once shutdown has been called no job is started.
C16_NoDispatchAfterShutdown ==
  [][shutdown.pc # "idle" => ~Has(emitted', "job:started")]_vars

\* C17: a shutdown that is waiting does return, at the latest by its timeout;
\* it returns without throwing, with the Worker Registry empty and with
\* processingJobs and the running handlers as they were.
C17_ShutdownTerminates ==
  /\ (shutdown.pc = "draining") ~> (shutdown.pc = "returned")
  /\ [][ShutdownReturns =>
          /\ workers' = <<>>
          /\ processingJobs' = processingJobs
          /\ running' = running
          /\ ~Thrown(emitted')]_vars

\* shutdown has returned by its timeout while a handler is still pending
C17_ReturnedWithActiveJob ==
  /\ shutdown.pc = "returned"
  /\ shutdown.by = "timeout"
  /\ workers = <<>>
  /\ processingJobs # {}
  /\ running # {}

\* C18: a worker leaves the Worker Registry only with an empty activeJobs set.
C18_UnregisterOnlyWhenIdle ==
  [][\A w \in Range(workers) :
       w \notin Range(workers') => workerObjs[w].activeJobs = {}]_vars

\* C19: unregisterWorker leaves the in-flight jobs as they are; a running job
\* stays in processingJobs, in its worker's activeJobs and locked; when the
\* handler of a job of an unregistered worker settles, the job is completed, or
\* retried or failed, and is taken out of processingJobs, activeJobs and
\* jobLocks.
Released(r) ==
  LET id == objs[r.ref].id IN
  /\ id \notin processingJobs'
  /\ id \notin DOMAIN jobLocks'
  /\ id \notin workerObjs'[r.w].activeJobs
  /\ r \notin running'

C19_UnregisterKeepsInFlightJobs ==
  /\ [][\A w \in Range(workers) :
          UnregisterWorker(w) =>
            UNCHANGED <<running, processingJobs, jobLocks, workerObjs,
                        waitingQueue, timers, completedJobs, failedJobs>>]_vars
  /\ [](\A r \in running :
          /\ objs[r.ref].id \in processingJobs
          /\ objs[r.ref].id \in DOMAIN jobLocks
          /\ objs[r.ref].id \in workerObjs[r.w].activeJobs)
  /\ [][\A r \in running :
          r.w \notin Range(workers) =>
            /\ HandlerResolve(r) =>
                 /\ r.ref \in Range(completedJobs')
                 /\ Has(emitted', "job:completed")
                 /\ Released(r)
            /\ HandlerReject(r) =>
                 /\ \/ \E t \in timers' : t.ref = r.ref
                    \/ r.ref \in Range(failedJobs')
                 /\ Released(r)]_vars

\* a job has just completed although the only worker ever registered had been
\* unregistered while the job was running
C19_CompletedAfterUnregister ==
  /\ Has(emitted, "job:completed")
  /\ Len(workerObjs) = 1
  /\ workers = <<>>
  /\ processingJobs = {}
  /\ jobLocks = <<>>

\* C20: a job is started only on a worker of the job's type.
C20_WorkerTypeMatches ==
  /\ [](\A r \in running : workerObjs[r.w].type = objs[r.ref].type)
  /\ [][\A r \in running' \ running :
          /\ IndexOf(workers, r.w) # 0 \/ IndexOf(workers', r.w) # 0
          /\ workerObjs'[r.w].type = objs'[r.ref].type]_vars

\* a job has just been started by the fallback: its worker is not healthy, and
\* the first worker of the registry is of another type
C20_FallbackStartedJob ==
  /\ Has(emitted, "job:started")
  /\ Len(workers) = 2
  /\ \E r \in running :
       /\ Has(emitted, "job:started") /\ emitted[Len(emitted)].ref = r.ref
       /\ r.w \in DOMAIN workerHealth
       /\ workerHealth[r.w].status # "healthy"
       /\ workers[1] # r.w
       /\ workerObjs[workers[1]].type # objs[r.ref].type

HasWorkerOfType(type) == \E i \in DOMAIN workers : workerObjs[workers[i]].type = type

\* C21: no admitted job is lost: a job leaves the waiting collection only by
\* being started, and every job object is waiting, running, held by a pending
\* timer, or recorded as completed or as failed, so that it can still reach a
\* final record (unique ids, handlers settle, no shutdown).
C21_NoWorkLost ==
  /\ [][\A i \in DOMAIN waitingQueue :
          LET ref == waitingQueue[i] IN
          IndexOf(waitingQueue', ref) = 0 => \E r \in running' \ running : r.ref = ref]_vars
  /\ [](\A ref \in DOMAIN objs :
          \/ IndexOf(waitingQueue, ref) # 0
          \/ \E r \in running : r.ref = ref
          \/ \E t \in timers : t.ref = ref
          \/ ref \in Range(completedJobs) \cup Range(failedJobs))

C24_HandlerFailureContained ==
  [][\A r \in running :
       (HandlerReject(r) \/ HandlerRejectNoReason(r))
         => /\ Released(r)
            /\ \/ \E t \in timers' : t.ref = r.ref
               \/ r.ref \in Range(failedJobs')
            /\ ~Thrown(emitted')
            /\ immediates' = immediates + 1]_vars

\* C23: a waitForJob promise keeps its first outcome; it is rejected by the job's
\* outcome only when the job is recorded as failed with its attempts exhausted,
\* a step that schedules a retry leaves it pending, and it is resolved with the
\* result of the attempt that completed the job.
C23_WaitForJobOutcome ==
  /\ [](\A id \in DOMAIN waits :
          /\ (waits[id].promise = "rejected" /\ waits[id].by = "failed")
               => \E ref \in Range(failedJobs) :
                    /\ waits[id].value.ref = ref
                    /\ objs[ref].id = id
                    /\ objs[ref].attempts >= objs[ref].maxAttempts
          /\ waits[id].promise = "resolved"
               => \E ref \in Range(completedJobs) :
                    /\ waits[id].value = [ref |-> ref, attempt |-> objs[ref].attempts]
                    /\ objs[ref].id = id)
  /\ [][\A id \in DOMAIN waits :
          /\ waits[id].promise # "pending"
               => /\ waits'[id].promise = waits[id].promise
                  /\ waits'[id].by = waits[id].by
                  /\ waits'[id].value = waits[id].value
          /\ (waits[id].promise = "pending" /\ Has(emitted', "job:retry"))
               => waits'[id].promise = "pending"]_vars

\* the awaited job failed once, was retried, and its second attempt resolved the promise
C23_ResolvedBySecondAttempt ==
  \E id \in DOMAIN waits :
    /\ waits[id].promise = "resolved"
    /\ waits[id].value.attempt = 2

\* C25: a call of getQueueStatus or getMetrics changes nothing but what it
\* returns: the Job Store, the job objects, the waiting collection, the
\* processing set, the workers and their active sets, the rate-limit windows,
\* the breaker state, the health records, the metric counters, the locks and
\* the pending callbacks are the same after the call.
C25_ReadsHaveNoEffect ==
  [][(GetQueueStatus \/ GetMetrics) =>
       /\ Has(emitted', "return")
       /\ UNCHANGED <<objs, jobs, waitingQueue, processingJobs, completedJobs, failedJobs,
                      workers, workerObjs, rateLimitStore, circuitBreakers, workerHealth,
                      metrics, jobLocks, roundRobinIndex, timers, immediates, running>>]_vars

\* a status read was served while one job was running and another was waiting
C25_ReadWhileBusy ==
  /\ Has(emitted, "return")
  /\ running # {}
  /\ waitingQueue # <<>>

\* C26: evaluateScaling leaves the worker registry, the workers, the waiting
\* collection, the job objects and the Job Store as they are; it emits
\* scaling:needed 'up' exactly when waiting / scaleUpThreshold > 1, and 'down'
\* only when nothing is waiting.
C26_ScalingIsAdvisory ==
  [][EvaluateScaling =>
       /\ UNCHANGED <<workers, workerObjs, workerHealth, waitingQueue, objs, jobs,
                      processingJobs, running, timers, completedJobs, failedJobs>>
       /\ Has(emitted', "scaling:needed:up") <=> Len(waitingQueue) > scaleUpThreshold
       /\ Has(emitted', "scaling:needed:down") => Len(waitingQueue) = 0]_vars

\* the evaluation found more than scaleUpThreshold jobs waiting and asked for workers
C26_ScaleUpRequested ==
  /\ Len(waitingQueue) > scaleUpThreshold
  /\ Has(emitted, "scaling:needed:up")
  /\ metrics.autoScalingEvents = 1

\* C27: for every key, every interval of length windowMs, whatever its start,
\* holds at most maxRequests admitted submissions (a submission without a
\* rateLimitKey is counted under the key of its type, and an admitted
\* submission is a job object created at that time).
C27_SlidingWindow ==
  \A type \in TwoTypes, t \in 1..MaxTime :
    Cardinality({ref \in DOMAIN objs :
                   /\ generateRateLimitKey(objs[ref].type) = generateRateLimitKey(type)
                   /\ t <= objs[ref].createdAt
                   /\ objs[ref].createdAt < t + windowMs})
      <= maxRequests

\* C28: in every step a job's attempts counter grows by one for each handler
\* invocation started for it in that step and does not change otherwise, so it
\* counts the invocations started; and it never exceeds maxAttempts.
C28_AttemptsCountInvocations ==
  /\ [][\A ref \in DOMAIN objs :
          objs'[ref].attempts
            = objs[ref].attempts + Cardinality({r \in running' \ running : r.ref = ref})]_vars
  /\ [](\A ref \in DOMAIN objs :
          /\ objs[ref].attempts <= objs[ref].maxAttempts
          /\ (\E r \in running : r.ref = ref) => objs[ref].attempts >= 1)

\* the handler of a job is running for the second and last time
C28_SecondInvocationRunning ==
  \E r \in running : objs[r.ref].attempts = 2 /\ objs[r.ref].maxAttempts = 2

\* C29: in a dispatch pass no job is started while a job of the same priority
\* and type that was waiting with an earlier createdAt is left waiting by that
\* pass.
C29_ArrivalOrderRespected ==
  [][\A r \in running' \ running :
       \A i \in DOMAIN waitingQueue' :
         LET left == waitingQueue'[i] IN
         (/\ IndexOf(waitingQueue, left) # 0
          /\ objs[left].type = objs[r.ref].type
          /\ objs[left].priority = objs[r.ref].priority)
           => objs[left].createdAt >= objs[r.ref].createdAt]_vars

\* C30: add sets scheduledAt = createdAt + delay; a job with delay 0 is in the
\* waiting queue when add returns; a job with delay d > 0 is held by a timer due
\* at createdAt + d, is neither waiting nor started while less than d has
\* elapsed, and is pushed to the waiting queue once when that timer fires;
\* scheduledAt is never before createdAt.
C30_DelayedSubmission ==
  /\ [][Len(objs') > Len(objs) =>
          LET ref == Len(objs')
              job == objs'[ref] IN
          /\ job.scheduledAt = job.createdAt + job.delay
          /\ job.createdAt = now
          /\ job.delay = 0 => Occurrences(waitingQueue', ref) = 1
          /\ job.delay > 0 => /\ Occurrences(waitingQueue', ref) = 0
                              /\ \E t \in timers' : t.ref = ref /\ t.due = now + job.delay]_vars
  /\ [](\A ref \in DOMAIN objs :
          /\ objs[ref].scheduledAt >= objs[ref].createdAt
          /\ now < objs[ref].createdAt + objs[ref].delay
               => /\ Occurrences(waitingQueue, ref) = 0
                  /\ objs[ref].attempts = 0
                  /\ \A r \in running : r.ref # ref)
  /\ [][\A t \in timers :
          (TimerFire(t) /\ objs[t.ref].attempts = 0)
            => /\ now >= objs[t.ref].createdAt + objs[t.ref].delay
               /\ Occurrences(waitingQueue, t.ref) = 0
               /\ Occurrences(waitingQueue', t.ref) = 1
               /\ \A u \in timers' : u.ref # t.ref]_vars

\* a job submitted with a delay was started after its timer fired, beside a job
\* submitted without delay
C30_DelayedJobStarted ==
  \E r \in running :
    /\ objs[r.ref].delay > 0
    /\ objs[r.ref].attempts = 1
    /\ \E ref \in DOMAIN objs : objs[ref].delay = 0

\* C31: a handler failure sets the worker's status to 'degraded' only when the
\* updated failureRate exceeds 0.5, leaves the status as it was when the
\* updated failureRate is at most 0.5, and never sets 'unhealthy'.
C31_FailureDowngradesPastHalf ==
  [][\A r \in running :
       (HandlerReject(r) /\ r.w \in DOMAIN workerHealth)
         => LET before == workerHealth[r.w]
                after == workerHealth'[r.w] IN
            /\ (after.status = "degraded" /\ before.status # "degraded")
                 => FailureRateAbove(after, 1)
            /\ ~FailureRateAbove(after, 1) => after.status = before.status
            /\ after.status = "unhealthy" => before.status = "unhealthy"]_vars

\* C32: a handler success that leaves the worker's decayed failureRate at most
\* 0.5 leaves the worker 'healthy', whatever its status was, with no health
\* check having run.
C32_SuccessesRestoreHealth ==
  [][\A r \in running :
       (HandlerResolve(r) /\ r.w \in DOMAIN workerHealth)
         => (~FailureRateAbove(workerHealth'[r.w], 1)
               => workerHealth'[r.w].status = "healthy")]_vars

IsHealthy(w) == w \notin DOMAIN workerHealth \/ workerHealth[w].status = "healthy"

\* C33: for every job type with a registered worker, findAvailableWorker
\* returns a registered worker of that type, and a healthy one whenever a
\* healthy worker of the type is registered; accordingly no job is started on
\* a worker that is not healthy while a healthy worker of its type is
\* registered.
C33_HealthyWorkersPreferred ==
  /\ [](\A type \in TwoTypes :
          HasWorkerOfType(type) =>
            LET w == findAvailableWorker(Queue, type).w IN
            /\ w \in Range(workers)
            /\ workerObjs[w].type = type
            /\ (\E v \in Range(workers) : workerObjs[v].type = type /\ IsHealthy(v))
                 => IsHealthy(w))
  /\ [][\A r \in running' \ running :
          (r.w \in DOMAIN workerHealth' /\ workerHealth'[r.w].status # "healthy") =>
            \A v \in Range(workers') :
              workerObjs'[v].type = objs'[r.ref].type
                => (v \in DOMAIN workerHealth' /\ workerHealth'[v].status # "healthy")]_vars

\* a job was started on the healthy second worker while the first worker of
\* its type, registered earlier and idle, is not healthy
C33_StartedOnHealthyWorker ==
  \E r \in running :
    /\ Len(workers) = 2
    /\ r.w = workers[2]
    /\ IsHealthy(r.w)
    /\ workerObjs[workers[1]].type = objs[r.ref].type
    /\ ~IsHealthy(workers[1])
    /\ workerObjs[workers[1]].activeJobs = {}

\* the candidate lists considered: the contiguous parts of the registered workers
CandidateLists == {SubSeq(workers, a, b) : a, b \in DOMAIN workers} \ {<<>>}

\* n consecutive calls of selectRoundRobin on the list ws from index rr: the workers returned
RECURSIVE SelectTimes(_, _, _)
SelectTimes(ws, rr, n) ==
  IF n = 0 THEN <<>>
  ELSE LET sel == selectRoundRobin(ws, rr) IN <<sel.w>> \o SelectTimes(ws, sel.rr, n - 1)

\* C34: on every candidate list of n workers, n consecutive round-robin
\* selections starting from the persisted index return every worker of the list
\* exactly once, in the cyclic order of the list, beginning at position
\* index mod n.
C34_RoundRobinCycle ==
  \A ws \in CandidateLists :
    LET n == Len(ws)
        picks == SelectTimes(ws, roundRobinIndex, n) IN
    /\ Len(picks) = n
    /\ \A w \in Range(ws) : Occurrences(picks, w) = 1
    /\ picks[1] = ws[(roundRobinIndex % n) + 1]
    /\ \A k \in 1..(n - 1) : IndexOf(ws, picks[k + 1]) = (IndexOf(ws, picks[k]) % n) + 1

\* three workers are registered and the persisted index points at the last one
C34_IndexAtLastWorker ==
  /\ options.strategy = "round-robin"
  /\ Len(workers) = 3
  /\ roundRobinIndex = 2
  /\ running # {}

\* C35: on every candidate list least-connections returns a worker of minimal
\* activeJobs count, the first such worker of the list, and the 'priority'
\* strategy returns the same worker.
C35_LeastConnectionsFirstMinimal ==
  \A ws \in CandidateLists :
    LET w == selectLeastConnections(workerObjs, ws)
        i == IndexOf(ws, w) IN
    /\ i # 0
    /\ \A j \in DOMAIN ws :
         Cardinality(workerObjs[w].activeJobs) <= Cardinality(workerObjs[ws[j]].activeJobs)
    /\ \A j \in 1..(i - 1) :
         Cardinality(workerObjs[ws[j]].activeJobs) > Cardinality(workerObjs[w].activeJobs)
    /\ selectPriority(workerObjs, ws) = w

\* the first worker is busy and the two workers after it are idle: a tie at the
\* minimum that does not begin the list
C35_TieAfterBusyWorker ==
  /\ Len(workers) = 3
  /\ workerObjs[workers[1]].activeJobs # {}
  /\ workerObjs[workers[2]].activeJobs = {}
  /\ workerObjs[workers[3]].activeJobs = {}

\* C36: a job leaves the waiting collection either by being started on a worker
\* whose breaker is not open, or by being deferred: not started, attempts
\* unchanged, not recorded as failed, no job:retry or job:failed emitted, and
\* held by a timer that will put it back into the waiting collection.
C36_OpenBreakerDefersJob ==
  [][\A i \in DOMAIN waitingQueue :
       LET ref == waitingQueue[i] IN
       IndexOf(waitingQueue', ref) = 0 =>
         \/ \E r \in running' \ running : r.ref = ref /\ ~ShouldBeOpen(r.w)
         \/ /\ \A r \in running' : r.ref # ref
            /\ objs'[ref].attempts = objs[ref].attempts
            /\ ref \notin Range(failedJobs')
            /\ ~Has(emitted', "job:failed") /\ ~Has(emitted', "job:retry")
            /\ \E t \in timers' : t.ref = ref /\ t.due = now + breakerDeferDelay]_vars

\* C37: whenever no operation is in progress, the ids holding a lock, the ids
\* in processingJobs and the ids in the activeJobs of all workers ever
\* registered are the same set, namely the ids of the jobs whose handler has
\* not settled, each locked by the worker running it; an id gets its lock in
\* the step that starts its handler and loses it in the step in which that
\* invocation settles, and in no other step.
C37_LocksAndSlotsAgree ==
  /\ [](/\ DOMAIN jobLocks = processingJobs
        /\ processingJobs = UNION {workerObjs[w].activeJobs : w \in DOMAIN workerObjs}
        /\ processingJobs = {objs[r.ref].id : r \in running}
        /\ \A r \in running : jobLocks[objs[r.ref].id] = r.w
                              /\ objs[r.ref].id \in workerObjs[r.w].activeJobs)
  /\ [][/\ (DOMAIN jobLocks') \ (DOMAIN jobLocks) = {objs'[r.ref].id : r \in running' \ running}
        /\ (DOMAIN jobLocks) \ (DOMAIN jobLocks') = {objs[r.ref].id : r \in running \ running'}]_vars

\* a job is locked and counted as processing on a worker that was unregistered
\* while another job waits
C37_LockHeldOnUnregisteredWorker ==
  \E r \in running :
    /\ r.w \notin Range(workers)
    /\ objs[r.ref].id \in DOMAIN jobLocks
    /\ waitingQueue # <<>>

\* C38: in the event history of every job object at most one terminal event
\* (job:completed or job:failed) occurs and it is the last event; the history
\* alternates job:started with the outcome of that attempt (job:retry,
\* job:completed or job:failed), beginning with job:started; job:started occurs
\* once per attempt; and a job that has failed for good has attempts - 1
\* job:retry events.
C38_EventsPerJob ==
  \A ref \in DOMAIN events :
    LET h == events[ref] IN
    /\ Occurrences(h, "job:completed") + Occurrences(h, "job:failed") <= 1
    /\ \A k \in DOMAIN h : h[k] \in {"job:completed", "job:failed"} => k = Len(h)
    /\ \A k \in DOMAIN h : (h[k] = "job:started") <=> (k % 2 = 1)
    /\ Occurrences(h, "job:started") = objs[ref].attempts
    /\ Occurrences(h, "job:failed") = 1
         => Occurrences(h, "job:retry") = objs[ref].attempts - 1

\* C39: totalJobs is the sum of the completed and failed counters, and each
\* counter equals the number of jobs appended to the corresponding record list
\* (no cleanup pass runs here, so the lists hold every job ever appended).
C39_CountersMatchRecords ==
  /\ metrics.totalJobs = metrics.completedJobs + metrics.failedJobs
  /\ metrics.completedJobs = Len(completedJobs)
  /\ metrics.failedJobs = Len(failedJobs)

\* C40: the job objects waiting when shutdown is called leave the waiting list
\* in that call, which emits no job:failed; from then on they are never in the
\* waiting list, never handed to a handler, never in the completed or failed
\* records and have no pending timer, and the Job Store still maps their id to
\* them.
C40_ShutdownDiscardsWaiting ==
  /\ [](\A ref \in shutdown.discarded :
          /\ ref \notin Range(waitingQueue)
          /\ ref \notin {r.ref : r \in running}
          /\ ref \notin {t.ref : t \in timers}
          /\ ref \notin Range(completedJobs) \cup Range(failedJobs)
          /\ objs[ref].completedAt = 0 /\ objs[ref].failedAt = 0
          /\ objs[ref].id \in DOMAIN jobs /\ jobs[objs[ref].id] = ref)
  /\ [][(shutdown.pc = "idle" /\ shutdown'.pc # "idle")
         => /\ shutdown'.discarded = Range(waitingQueue)
            /\ \A i \in DOMAIN emitted' : emitted'[i].ev # "job:failed"
            /\ jobs' = jobs
            /\ completedJobs' = completedJobs /\ failedJobs' = failedJobs]_vars

\* a job was discarded by shutdown and a job submitted after the call completed
C40_LaterJobCompleted ==
  \E ref \in shutdown.discarded :
    \E later \in Range(completedJobs) : later > ref

====
